---- MODULE Spec2Model ----
(***************************************************************************)
(* The SpeakUpProject forum client (React).  Three variants of the same    *)
(* App component exist in the repository:                                  *)
(*   "single"  src/frontend/src/App.tsx   session-gated, one page          *)
(*   "routed"  src/unnamed/part_000       session-gated, /auth and / routes*)
(*   "anon"    src/unnamed/part_001       no session at all                *)
(* Two specifications are given:                                           *)
(*   SpecTree  the reply tree builder of ThreadItem (a pure function of    *)
(*             thread.replies), applied to bounded reply lists;            *)
(*   Spec      the App component: token maps, session, async handlers and  *)
(*             the requests they have in flight;                           *)
(*   SpecOverlap  the App component from the moment two create/delete      *)
(*             requests are in flight together, until all have answered;   *)
(*   SpecReload  the page opened, used and closed over one localStorage:   *)
(*             readTokenMap, readStoredAuthUser and the persistence        *)
(*             effects applied to bounded storage contents.                *)
(***************************************************************************)
EXTENDS Integers, Sequences, FiniteSets, TLC

VARIABLES
    replies,        \* ThreadItem: props.thread.replies, the flat reply list
    rendered,       \* ThreadItem: the (reply, depth) sequence renderReplies(null, 0) emits
    treeStatus      \* "input" before the render, then "rendered" or "overflow"

treeVars == <<replies, rendered, treeStatus>>

VARIABLES
    variant,        \* which App component runs: "single", "routed" or "anon"
    theme,          \* useState: "light" | "dark"
    threads,        \* useState<Thread[]>: 0 is the empty list, n > 0 the data returned to load request n
    loading,        \* useState(false)
    error,          \* useState<string | null>
    threadTokens,   \* useState<Record<number, string>>: thread id -> owner token
    replyTokens,    \* useState<Record<number, string>>: reply id -> owner token
    authMode,       \* useState: "signin" | "signup"
    authMessage,    \* useState<string | null>
    authError,      \* useState<string | null>
    authLoading,    \* useState(false)
    authToken,      \* useState<string | null>
    authUser,       \* useState<AuthUser | null>
    storage,        \* window.localStorage, by storage key
    tasks,          \* the fetch requests awaiting their response, with what the suspended handler holds
    issued,         \* number of fetch requests sent so far; a request's seq is its issue order
    events,         \* number of user events handled so far
    last            \* the handler step taken last: handler, outcome, id and tokens it dealt with

appVars == <<variant, theme, threads, loading, error, threadTokens, replyTokens, authMode,
             authMessage, authError, authLoading, authToken, authUser, storage, tasks,
             issued, events, last>>

VARIABLES
    disk,           \* window.localStorage as a page load finds it and the effects leave it
    found,          \* window.localStorage as the last page load found it
    page,           \* what the page holds in state: token maps, authToken, authUser
    phase           \* "new" before the first page load, then "open", "closed", or "crashed"

reloadVars == <<disk, found, page, phase>>

vars == <<appVars, treeVars, reloadVars>>

(***************************************************************************)
(* Bounds of the model.                                                    *)
(***************************************************************************)
MaxReplies == 3     \* longest reply list handed to the tree builder
MaxReplyId == 3     \* reply ids (and parent references) range over 1..MaxReplyId
MaxTime == 3        \* created_at timestamps range over 1..MaxTime
MaxId == 2          \* thread ids and reply ids the server hands out range over 1..MaxId
MaxEvents == 1      \* user events (clicks, submits) handled in one run

\* parent_id: number | null -- null is written 0, ids are positive
Null == 0

(***************************************************************************)
(* ThreadItem: the reply tree builder.                                     *)
(***************************************************************************)

\* String(parent_id ?? "root"): the grouping key of a parent reference
KeyOf(parentId) == IF parentId = Null THEN "root" ELSE ToString(parentId)

\* Array.prototype.sort with (a, b) => created_at(a) - created_at(b): a stable
\* sort of a sequence of positions of rs by timestamp.  Insert puts x after
\* every element that does not compare greater, which keeps ties in order.
RECURSIVE Insert(_, _, _)

\* an unstable insertion: x goes before the elements it ties with
RECURSIVE InsertBeforeEqual(_, _, _)
InsertBeforeEqual(rs, sorted, x) ==
    IF sorted = <<>> THEN <<x>>
    ELSE IF rs[Head(sorted)].created_at - rs[x].created_at >= 0
         THEN <<x>> \o sorted
         ELSE <<Head(sorted)>> \o InsertBeforeEqual(rs, Tail(sorted), x)

Insert(rs, sorted, x) ==
    IF sorted = <<>> THEN <<x>>
    ELSE IF rs[Head(sorted)].created_at - rs[x].created_at > 0
         THEN <<x>> \o sorted
         ELSE <<Head(sorted)>> \o Insert(rs, Tail(sorted), x)

RECURSIVE SortByCreatedAt(_, _, _)
SortByCreatedAt(rs, group, sorted) ==
    IF group = <<>> THEN sorted
    ELSE SortByCreatedAt(rs, Tail(group), Insert(rs, sorted, Head(group)))

\* a grouping that also files a reply naming itself as parent under "root"
repliesByParentSelfRooted(rs) ==
    LET positions == [i \in 1..Len(rs) |-> i]
        keys == {KeyOf(rs[i].parent_id) : i \in 1..Len(rs)} \cup {"root"}
        pushed(key) == LET InGroup(i) == \/ KeyOf(rs[i].parent_id) = key
                                         \/ key = "root" /\ rs[i].parent_id = rs[i].id
                       IN SelectSeq(positions, InGroup)
    IN [key \in keys |-> SortByCreatedAt(rs, pushed(key), <<>>)]

\* useMemo: grouped[key] holds the replies whose parent key is key, pushed in
\* list order and then sorted by created_at.  Replies are kept as positions of
\* rs, which is what tells two reply objects with equal fields apart.
repliesByParent(rs) ==
    LET positions == [i \in 1..Len(rs) |-> i]
        keys == {KeyOf(rs[i].parent_id) : i \in 1..Len(rs)}
        pushed(key) == LET InGroup(i) == KeyOf(rs[i].parent_id) = key
                       IN SelectSeq(positions, InGroup)
    IN [key \in keys |-> SortByCreatedAt(rs, pushed(key), <<>>)]

\* The element standing for a call that never returns: the JavaScript call
\* stack is exhausted (RangeError) and the render fails.
StackOverflow == [idx |-> 0, depth |-> 0]

\* renderReplies(parentId, depth): children.map(reply => <div> ... reply ...
\* renderReplies(reply.id, depth + 1) </div>), flattened depth-first into
\* (position, depth) pairs.  A call at depth > Len(rs) has some reply twice on
\* its call path; as the children of a reply depend on its id alone, that
\* recursion never ends.
RECURSIVE renderReplies(_, _, _)
RECURSIVE renderChildren(_, _, _)

\* an expansion that emits every reply unindented, at depth 0
RECURSIVE renderChildrenFlat(_, _, _)
renderChildrenFlat(rs, children, depth) ==
    IF children = <<>> THEN <<>>
    ELSE <<[idx |-> Head(children), depth |-> 0]>>
         \o renderReplies(rs, rs[Head(children)].id, depth + 1)
         \o renderChildrenFlat(rs, Tail(children), depth)

renderChildren(rs, children, depth) ==
    IF children = <<>> THEN <<>>
    ELSE <<[idx |-> Head(children), depth |-> depth]>>
         \o renderReplies(rs, rs[Head(children)].id, depth + 1)
         \o renderChildren(rs, Tail(children), depth)

renderReplies(rs, parentId, depth) ==
    LET key == KeyOf(parentId)
        grouped == repliesByParent(rs)
        children == IF key \in DOMAIN grouped THEN grouped[key] ELSE <<>>
    IN IF depth > Len(rs) THEN <<StackOverflow>>
       ELSE renderChildren(rs, children, depth)

\* The reply lists the tree builder is applied to: arbitrary ids and parent
\* references (dangling, self, cyclic, repeated ids) with one timestamp, and
\* lists with the ids 1..n in order and arbitrary parents and timestamps.
Reply == [id : 1..MaxReplyId, parent_id : {Null} \cup (1..MaxReplyId), created_at : 1..MaxTime]

SeqsUpTo(S, n) == UNION {[1..k -> S] : k \in 0..n}

UntimedInputs == SeqsUpTo({r \in Reply : r.created_at = 1}, MaxReplies)

TimedInputs ==
    {[i \in DOMAIN f |-> [id |-> i, parent_id |-> f[i][1], created_at |-> f[i][2]]] :
        f \in SeqsUpTo(({Null} \cup (1..MaxReplyId)) \X (1..MaxTime), MaxReplies)}

TreeInputs == UntimedInputs \cup TimedInputs

(***************************************************************************)
(* App: values.                                                            *)
(***************************************************************************)

\* null, undefined and the empty string.  Every test the code makes on a token,
\* a user, a message or a stored value is a truthiness test (!authToken,
\* !ownerToken, owner_token || ownerToken, Boolean(threadTokens[id]), !raw).
None == ""

Variants == {"single", "routed", "anon"}
HasSession == {"single", "routed"}      \* the variants with authToken / authUser state

Ids == 1..MaxId

\* generateOwnerToken(): a random string, never empty
GeneratedTokens == {"gen1", "gen2"}

\* the owner_token field of a create response: absent, or a string of the server's
ResponseTokens == {None, "srv"}

User == "alice"         \* an AuthUser {id, username, email}
Bearer == "jwt"         \* an access_token

\* how a fetch ends: a success status, a non-success status, or a rejected
\* promise / unreadable body (fetch or response.json() throws)
Outcomes == {"ok", "status", "throw"}

\* the message of the Error a failing fetch or response.json() throws
ThrownMessage == "Failed to fetch"

(***************************************************************************)
(* App: token maps and their persistence.                                  *)
(***************************************************************************)

\* threadTokens[id] / replyTokens[id]: undefined when the map has no such key
Lookup(map, id) == IF id \in DOMAIN map THEN map[id] ELSE None

\* {...prev, [id]: token}
Put(map, id, token) == [k \in DOMAIN map \cup {id} |-> IF k = id THEN token ELSE map[k]]

\* const next = {...prev}; delete next[id]
Remove(map, id) == [k \in DOMAIN map \ {id} |-> map[k]]

EmptyMap == [k \in {} |-> None]

\* Number(id) of an object key written by JSON.stringify
NumberOf(key) == CHOOSE n \in 0..(MaxId + 1) : ToString(n) = key

\* JSON.stringify(map): the stored text, kept as its parse -- an object whose
\* keys are the decimal strings of the ids
Stringify(map) ==
    [kind |-> "object",
     entries |-> [key \in {ToString(id) : id \in DOMAIN map} |-> map[NumberOf(key)]]]

\* The value standing for an exception that leaves an initialiser: the
\* component does not render.
Thrown == [id \in {-1} |-> "exception"]

\* readTokenMap without its try/catch: what JSON.parse or Object.entries
\* throws leaves the function
readTokenMapUncaught(raw) ==
    IF raw.kind \in {"missing", "empty"} THEN EmptyMap
    ELSE IF raw.kind \in {"malformed", "null"} THEN Thrown
    ELSE IF raw.kind = "number" THEN EmptyMap
    ELSE IF raw.kind = "array" THEN [id \in 0..(Len(raw.items) - 1) |-> raw.items[id + 1]]
    ELSE [id \in {NumberOf(key) : key \in DOMAIN raw.entries} |->
            raw.entries[ToString(id)]]

\* readTokenMap numbering the entries of the parsed object by their position
readTokenMapByPosition(raw) ==
    IF raw.kind \in {"missing", "empty"} THEN EmptyMap
    ELSE IF raw.kind \in {"malformed", "null"} THEN EmptyMap
    ELSE IF raw.kind = "number" THEN EmptyMap
    ELSE IF raw.kind = "array" THEN [id \in 0..(Len(raw.items) - 1) |-> raw.items[id + 1]]
    ELSE LET ids == {NumberOf(key) : key \in DOMAIN raw.entries}
             Before(id) == Cardinality({i \in ids : i < id})
         IN [n \in 0..(Cardinality(ids) - 1) |->
                raw.entries[ToString(CHOOSE id \in ids : Before(id) = n)]]

\* readTokenMap(storageKey): {} when nothing is stored or JSON.parse throws,
\* else the entries of the parsed object with Number(id) for each key
\* A stored text that parses to something else than an object is handed to
\* Object.entries all the same: null makes it throw (caught: {}), a number or
\* a boolean has no entries, an array has its items under the keys "0", "1", ..
readTokenMap(raw) ==
    IF raw.kind \in {"missing", "empty"} THEN EmptyMap
    ELSE IF raw.kind \in {"malformed", "null"} THEN EmptyMap
    ELSE IF raw.kind = "number" THEN EmptyMap
    ELSE IF raw.kind = "array" THEN [id \in 0..(Len(raw.items) - 1) |-> raw.items[id + 1]]
    ELSE [id \in {NumberOf(key) : key \in DOMAIN raw.entries} |->
            raw.entries[ToString(id)]]

\* readStoredAuthUser(): null when nothing is stored or JSON.parse throws
\* else whatever JSON.parse returns, cast to AuthUser unexamined
readStoredAuthUser(raw) ==
    IF raw.kind \in {"missing", "empty"} THEN None
    ELSE IF raw.kind = "malformed" THEN None
    ELSE raw.value

Missing == [kind |-> "missing"]
Malformed == [kind |-> "malformed"]

\* what a run may find under a token-map key at startup
StoredTokenMaps == {Missing, Malformed, Stringify(EmptyMap), Stringify(Put(EmptyMap, 1, "old"))}

\* what a run may find under the auth-user key at startup
StoredAuthUsers == {Missing, Malformed, [kind |-> "json", value |-> User]}

\* persistence effects that call setItem whatever the value is: an absent user
\* is stored as the text "null", not removed
StoredWithoutRemoval(v, th, tt, rt, at, au) ==
    [theme |-> th,
     threadTokens |-> Stringify(tt),
     replyTokens |-> Stringify(rt),
     authToken |-> IF v \in HasSession /\ at # None THEN at ELSE None,
     authUser |-> IF v \in HasSession THEN [kind |-> "json", value |-> au] ELSE Missing]

\* the persistence effects (useEffect on threadTokens, replyTokens, authToken,
\* authUser, theme): setItem, or removeItem for an absent token or user
Stored(v, th, tt, rt, at, au) ==
    [theme |-> th,
     threadTokens |-> Stringify(tt),
     replyTokens |-> Stringify(rt),
     authToken |-> IF v \in HasSession /\ at # None THEN at ELSE None,
     authUser |-> IF v \in HasSession /\ au # None
                  THEN [kind |-> "json", value |-> au] ELSE Missing]

Persist ==
    storage' = Stored(variant', theme', threadTokens', replyTokens', authToken', authUser')

(***************************************************************************)
(* Page loads over one localStorage: values.                               *)
(***************************************************************************)

\* a parsed JSON value that is truthy and is no {id, username, email} object
NotAUser == "{}"

\* what a page load may find under a token-map key: nothing, the empty string,
\* text that is no JSON, the JSON null, a number, an object, an array
DiskTokenMaps ==
    {Missing, [kind |-> "empty"], Malformed, [kind |-> "null"], [kind |-> "number"],
     Stringify(EmptyMap), Stringify(Put(EmptyMap, 1, "old")),
     [kind |-> "array", items |-> <<"old">>]}

\* what it may find under the auth-user key: nothing, the empty string, text
\* that is no JSON, a profile, a falsy JSON value, another JSON value
DiskAuthUsers ==
    {Missing, [kind |-> "empty"], Malformed, [kind |-> "json", value |-> User],
     [kind |-> "json", value |-> None], [kind |-> "json", value |-> NotAUser]}

DiskInputs ==
    [theme : {"light"}, threadTokens : DiskTokenMaps, replyTokens : DiskTokenMaps,
     authToken : {None, Bearer}, authUser : DiskAuthUsers]

\* the useState initialisers of the token maps and the session
Rehydrate(d) ==
    [threadTokens |-> readTokenMap(d.threadTokens),
     replyTokens |-> readTokenMap(d.replyTokens),
     authToken |-> d.authToken,
     authUser |-> readStoredAuthUser(d.authUser)]

\* the persistence effects applied to what the page holds
Flush(pg) == Stored("single", "light", pg.threadTokens, pg.replyTokens, pg.authToken, pg.authUser)

NoPage == [threadTokens |-> EmptyMap, replyTokens |-> EmptyMap, authToken |-> None,
           authUser |-> None]

\* no page load is looked at
ReloadAtRest ==
    /\ disk = Flush(NoPage)
    /\ found = Flush(NoPage)
    /\ page = NoPage
    /\ phase = "new"

(***************************************************************************)
(* App: derived values of a render.                                        *)
(***************************************************************************)

\* const isAuthed = Boolean(authToken && authUser)
IsAuthed(at, au) == at # None /\ au # None
isAuthed == IsAuthed(authToken, authUser)

\* the canDeleteThread prop of the ThreadItem of thread id, FALSE where no
\* ThreadItem is rendered (routed: ForumPage is inside RequireAuth)
canDeleteThread(id) ==
    CASE variant = "single" -> Lookup(threadTokens, id) # None /\ isAuthed
      [] variant = "routed" -> isAuthed /\ Lookup(threadTokens, id) # None
      [] variant = "anon" -> Lookup(threadTokens, id) # None

\* canDeleteReply looking the reply id up in one merged token map
canDeleteReplyMerged(id) ==
    LET merged(n) == IF Lookup(replyTokens, n) # None THEN Lookup(replyTokens, n)
                     ELSE Lookup(threadTokens, n)
    IN CASE variant = "single" -> merged(id) # None /\ isAuthed
         [] variant = "routed" -> isAuthed /\ merged(id) # None
         [] variant = "anon" -> merged(id) # None

\* the canDeleteReply prop
canDeleteReply(id) ==
    CASE variant = "single" -> Lookup(replyTokens, id) # None /\ isAuthed
      [] variant = "routed" -> isAuthed /\ Lookup(replyTokens, id) # None
      [] variant = "anon" -> Lookup(replyTokens, id) # None

(***************************************************************************)
(* App: requests in flight.                                                *)
(***************************************************************************)

Task(seq, kind, id, ownerToken, mode) ==
    [seq |-> seq, kind |-> kind, id |-> id, ownerToken |-> ownerToken, mode |-> mode]

LoadTask(seq) == Task(seq, "load", Null, None, None)

\* handlers that reload the threads once their request has succeeded
Reloading == {"createThread", "createReply", "deleteThread", "deleteReply"}

\* a user event: a click or a form submit that runs a handler
UserEvent == events < MaxEvents /\ events' = events + 1

\* a settled fetch resumes its handler
Settled == UNCHANGED events

Step(op, result, id, respToken, ownerToken) ==
    [op |-> op, result |-> result, id |-> id, respToken |-> respToken,
     ownerToken |-> ownerToken]

\* a step of handleAuthSubmit on a response, with the payload it was given
AuthStep(result, body) ==
    [op |-> "auth", result |-> result, id |-> Null, respToken |-> None, ownerToken |-> None,
     body |-> body]

(***************************************************************************)
(* App: construction.                                                      *)
(***************************************************************************)

\* useState initialisers, then the mount effects: the persistence effects and
\* the first loadThreads() (routed: only when isAuthed, else setThreads([]))
Init ==
    /\ variant \in Variants
    /\ theme = "light"      \* a saved "dark" is the state one toggle away
    /\ threads = 0
    /\ error = None
    /\ \E raw \in StoredTokenMaps : threadTokens = readTokenMap(raw)
    /\ \E raw \in StoredTokenMaps : replyTokens = readTokenMap(raw)
    /\ authMode = "signin"
    /\ authMessage = None
    /\ authError = None
    /\ authLoading = FALSE
    /\ IF variant \in HasSession
       THEN /\ authToken \in {None, Bearer}
            /\ \E raw \in StoredAuthUsers : authUser = readStoredAuthUser(raw)
       ELSE /\ authToken = None
            /\ authUser = None
    /\ storage = Stored(variant, theme, threadTokens, replyTokens, authToken, authUser)
    /\ IF variant = "routed" /\ ~isAuthed
       THEN /\ loading = FALSE
            /\ tasks = {}
            /\ issued = 0
       ELSE /\ loading = TRUE
            /\ tasks = {LoadTask(1)}
            /\ issued = 1
    /\ events = 0
    /\ last = Step("mount", "ok", Null, None, None)
    /\ replies = <<>>
    /\ rendered = <<>>
    /\ treeStatus = "idle"
    /\ ReloadAtRest

(***************************************************************************)
(* App: loadThreads.                                                       *)
(***************************************************************************)

\* loadThreads() after its fetch has settled: setThreads(data) on a success
\* status, setError(message) otherwise, setLoading(false) in either case
LoadResponse ==
    \E t \in tasks, outcome \in Outcomes :
        /\ t.kind = "load"
        /\ tasks' = tasks \ {t}
        /\ threads' = IF outcome = "ok" THEN t.seq ELSE threads
        /\ error' = CASE outcome = "ok" -> error
                      [] outcome = "status" -> "Could not load threads."
                      [] outcome = "throw" -> ThrownMessage
        /\ loading' = FALSE
        /\ last' = Step("loadThreads", outcome, t.seq, None, None)
        /\ UNCHANGED <<variant, theme, threadTokens, replyTokens, authMode, authMessage,
                       authError, authLoading, authToken, authUser, issued>>
        /\ Settled
        /\ Persist
        /\ UNCHANGED <<treeVars, reloadVars>>

(***************************************************************************)
(* App: creating a thread.                                                 *)
(***************************************************************************)

\* handleCreateThread up to its fetch: setError(null); without an authToken
\* (single, routed) setError and return; else POST /threads with a new token
handleCreateThread ==
    /\ error' = IF variant \in HasSession /\ authToken = None
                THEN "Please sign in to create a thread." ELSE None
    /\ IF variant \in HasSession /\ authToken = None
       THEN /\ last' = Step("createThread", "rejected", Null, None, None)
            /\ UNCHANGED <<tasks, issued>>
       ELSE /\ \E ownerToken \in GeneratedTokens :
                 /\ tasks' = tasks \cup {Task(issued + 1, "createThread", Null, ownerToken, None)}
                 /\ last' = Step("createThread", "sent", Null, None, ownerToken)
            /\ issued' = issued + 1
    /\ UNCHANGED <<variant, theme, threads, loading, threadTokens, replyTokens, authMode,
                   authMessage, authError, authLoading, authToken, authUser>>
    /\ UserEvent
    /\ Persist
    /\ UNCHANGED <<treeVars, reloadVars>>

\* CreateThreadResponse recording the token before it looks at response.ok:
\* a failed create registers its token under the id the error body lacks
CreateThreadResponseUnchecked ==
    \E t \in tasks :
        /\ t.kind = "createThread"
        /\ \/ \E id \in Ids, respToken \in ResponseTokens :
                /\ threadTokens' = Put(threadTokens, id,
                                       IF respToken # None THEN respToken ELSE t.ownerToken)
                /\ loading' = TRUE
                /\ error' = None
                /\ tasks' = (tasks \ {t}) \cup {LoadTask(issued + 1)}
                /\ issued' = issued + 1
                /\ last' = Step("createThread", "ok", id, respToken, t.ownerToken)
           \/ \E outcome \in Outcomes \ {"ok"} :
                /\ threadTokens' = Put(threadTokens, Null, t.ownerToken)
                /\ error' = IF outcome = "status" THEN "Failed to create thread."
                            ELSE ThrownMessage
                /\ tasks' = tasks \ {t}
                /\ last' = Step("createThread", outcome, Null, None, t.ownerToken)
                /\ UNCHANGED <<loading, issued>>
        /\ UNCHANGED <<variant, theme, threads, replyTokens, authMode, authMessage,
                       authError, authLoading, authToken, authUser>>
        /\ Settled
        /\ Persist
        /\ UNCHANGED <<treeVars, reloadVars>>

\* CreateThreadResponse without the fallback: createdThread.owner_token alone
CreateThreadResponseNoFallback ==
    \E t \in tasks :
        /\ t.kind = "createThread"
        /\ \/ \E id \in Ids, respToken \in ResponseTokens :
                /\ threadTokens' = Put(threadTokens, id, respToken)
                /\ loading' = TRUE
                /\ error' = None
                /\ tasks' = (tasks \ {t}) \cup {LoadTask(issued + 1)}
                /\ issued' = issued + 1
                /\ last' = Step("createThread", "ok", id, respToken, t.ownerToken)
           \/ \E outcome \in Outcomes \ {"ok"} :
                /\ error' = IF outcome = "status" THEN "Failed to create thread."
                            ELSE ThrownMessage
                /\ tasks' = tasks \ {t}
                /\ last' = Step("createThread", outcome, Null, None, t.ownerToken)
                /\ UNCHANGED <<threadTokens, loading, issued>>
        /\ UNCHANGED <<variant, theme, threads, replyTokens, authMode, authMessage,
                       authError, authLoading, authToken, authUser>>
        /\ Settled
        /\ Persist
        /\ UNCHANGED <<treeVars, reloadVars>>

\* handleCreateThread reloading the threads after a failed request too
CreateThreadResponseReloading ==
    \E t \in tasks :
        /\ t.kind = "createThread"
        /\ \E outcome \in Outcomes \ {"ok"} :
                /\ error' = IF outcome = "status" THEN "Failed to create thread."
                            ELSE ThrownMessage
                /\ loading' = TRUE
                /\ tasks' = (tasks \ {t}) \cup {LoadTask(issued + 1)}
                /\ issued' = issued + 1
                /\ last' = Step("createThread", outcome, Null, None, t.ownerToken)
        /\ UNCHANGED <<variant, theme, threads, threadTokens, replyTokens, authMode,
                       authMessage, authError, authLoading, authToken, authUser>>
        /\ Settled
        /\ Persist
        /\ UNCHANGED <<treeVars, reloadVars>>

\* handleCreateThread setting the map to the new entry alone:
\* setThreadTokens({ [created.id]: token }) in place of the updater on prev
CreateThreadResponseReplacing ==
    \E t \in tasks :
        /\ t.kind = "createThread"
        /\ \E id \in Ids, respToken \in ResponseTokens :
                /\ threadTokens' = Put(EmptyMap, id,
                                       IF respToken # None THEN respToken ELSE t.ownerToken)
                /\ loading' = TRUE
                /\ error' = None
                /\ tasks' = (tasks \ {t}) \cup {LoadTask(issued + 1)}
                /\ issued' = issued + 1
                /\ last' = Step("createThread", "ok", id, respToken, t.ownerToken)
        /\ UNCHANGED <<variant, theme, threads, replyTokens, authMode, authMessage,
                       authError, authLoading, authToken, authUser>>
        /\ Settled
        /\ Persist
        /\ UNCHANGED <<treeVars, reloadVars>>

\* handleCreateThread after its fetch has settled: on a success status record
\* the token under the created id and call loadThreads(); else setError
CreateThreadResponse ==
    \E t \in tasks :
        /\ t.kind = "createThread"
        /\ \/ \E id \in Ids, respToken \in ResponseTokens :
                /\ threadTokens' = Put(threadTokens, id,
                                       IF respToken # None THEN respToken ELSE t.ownerToken)
                /\ loading' = TRUE
                /\ error' = None
                /\ tasks' = (tasks \ {t}) \cup {LoadTask(issued + 1)}
                /\ issued' = issued + 1
                /\ last' = Step("createThread", "ok", id, respToken, t.ownerToken)
           \/ \E outcome \in Outcomes \ {"ok"} :
                /\ error' = IF outcome = "status" THEN "Failed to create thread."
                            ELSE ThrownMessage
                /\ tasks' = tasks \ {t}
                /\ last' = Step("createThread", outcome, Null, None, t.ownerToken)
                /\ UNCHANGED <<threadTokens, loading, issued>>
        /\ UNCHANGED <<variant, theme, threads, replyTokens, authMode, authMessage,
                       authError, authLoading, authToken, authUser>>
        /\ Settled
        /\ Persist
        /\ UNCHANGED <<treeVars, reloadVars>>

(***************************************************************************)
(* App: creating a reply.                                                  *)
(***************************************************************************)

\* handleCreateReply(threadId) up to its fetch
handleCreateReply ==
    \E threadId \in Ids :
        /\ error' = IF variant \in HasSession /\ authToken = None
                    THEN "Please sign in to reply." ELSE None
        /\ IF variant \in HasSession /\ authToken = None
           THEN /\ last' = Step("createReply", "rejected", Null, None, None)
                /\ UNCHANGED <<tasks, issued>>
           ELSE /\ \E ownerToken \in GeneratedTokens :
                     /\ tasks' = tasks \cup {Task(issued + 1, "createReply", Null, ownerToken, None)}
                     /\ last' = Step("createReply", "sent", Null, None, ownerToken)
                /\ issued' = issued + 1
        /\ UNCHANGED <<variant, theme, threads, loading, threadTokens, replyTokens, authMode,
                       authMessage, authError, authLoading, authToken, authUser>>
        /\ UserEvent
        /\ Persist
        /\ UNCHANGED <<treeVars, reloadVars>>

\* handleCreateReply after its fetch has settled
CreateReplyResponse ==
    \E t \in tasks :
        /\ t.kind = "createReply"
        /\ \/ \E id \in Ids, respToken \in ResponseTokens :
                /\ replyTokens' = Put(replyTokens, id,
                                      IF respToken # None THEN respToken ELSE t.ownerToken)
                /\ loading' = TRUE
                /\ error' = None
                /\ tasks' = (tasks \ {t}) \cup {LoadTask(issued + 1)}
                /\ issued' = issued + 1
                /\ last' = Step("createReply", "ok", id, respToken, t.ownerToken)
           \/ \E outcome \in Outcomes \ {"ok"} :
                /\ error' = IF outcome = "status" THEN "Failed to create reply."
                            ELSE ThrownMessage
                /\ tasks' = tasks \ {t}
                /\ last' = Step("createReply", outcome, Null, None, t.ownerToken)
                /\ UNCHANGED <<replyTokens, loading, issued>>
        /\ UNCHANGED <<variant, theme, threads, threadTokens, authMode, authMessage,
                       authError, authLoading, authToken, authUser>>
        /\ Settled
        /\ Persist
        /\ UNCHANGED <<treeVars, reloadVars>>

(***************************************************************************)
(* App: deleting a thread or a reply.                                      *)
(***************************************************************************)

\* handleDeleteThread(threadId) up to its fetch: return when threadTokens has
\* no token for threadId; else setError(null) and DELETE with X-Owner-Token
handleDeleteThread ==
    \E threadId \in Ids :
        /\ IF Lookup(threadTokens, threadId) = None
           THEN /\ last' = Step("deleteThread", "rejected", threadId, None, None)
                /\ UNCHANGED <<error, tasks, issued>>
           ELSE /\ error' = None
                /\ tasks' = tasks \cup {Task(issued + 1, "deleteThread", threadId,
                                             Lookup(threadTokens, threadId), None)}
                /\ issued' = issued + 1
                /\ last' = Step("deleteThread", "sent", threadId, None,
                                Lookup(threadTokens, threadId))
        /\ UNCHANGED <<variant, theme, threads, loading, threadTokens, replyTokens, authMode,
                       authMessage, authError, authLoading, authToken, authUser>>
        /\ UserEvent
        /\ Persist
        /\ UNCHANGED <<treeVars, reloadVars>>

\* DeleteThreadResponse dropping the entry whatever the status
DeleteThreadResponseForgetful ==
    \E t \in tasks :
        /\ t.kind = "deleteThread"
        /\ \/ /\ threadTokens' = Remove(threadTokens, t.id)
              /\ loading' = TRUE
              /\ error' = None
              /\ tasks' = (tasks \ {t}) \cup {LoadTask(issued + 1)}
              /\ issued' = issued + 1
              /\ last' = Step("deleteThread", "ok", t.id, None, t.ownerToken)
           \/ \E outcome \in Outcomes \ {"ok"} :
                /\ threadTokens' = Remove(threadTokens, t.id)
                /\ error' = IF outcome = "status" THEN "Failed to delete thread."
                            ELSE ThrownMessage
                /\ tasks' = tasks \ {t}
                /\ last' = Step("deleteThread", outcome, t.id, None, t.ownerToken)
                /\ UNCHANGED <<loading, issued>>
        /\ UNCHANGED <<variant, theme, threads, replyTokens, authMode, authMessage,
                       authError, authLoading, authToken, authUser>>
        /\ Settled
        /\ Persist
        /\ UNCHANGED <<treeVars, reloadVars>>

\* handleDeleteThread without its reload of the threads
DeleteThreadResponseNoReload ==
    \E t \in tasks :
        /\ t.kind = "deleteThread"
        /\ \/ /\ threadTokens' = Remove(threadTokens, t.id)
              /\ error' = error
              /\ last' = Step("deleteThread", "ok", t.id, None, t.ownerToken)
           \/ \E outcome \in Outcomes \ {"ok"} :
                /\ error' = IF outcome = "status" THEN "Failed to delete thread."
                            ELSE ThrownMessage
                /\ last' = Step("deleteThread", outcome, t.id, None, t.ownerToken)
                /\ UNCHANGED threadTokens
        /\ tasks' = tasks \ {t}
        /\ UNCHANGED <<variant, theme, threads, loading, issued, replyTokens, authMode,
                       authMessage, authError, authLoading, authToken, authUser>>
        /\ Settled
        /\ Persist
        /\ UNCHANGED <<treeVars, reloadVars>>

\* handleDeleteThread after its fetch has settled: on a success status drop
\* the entry of threadId and call loadThreads(); else setError
DeleteThreadResponse ==
    \E t \in tasks :
        /\ t.kind = "deleteThread"
        /\ \/ /\ threadTokens' = Remove(threadTokens, t.id)
              /\ loading' = TRUE
              /\ error' = None
              /\ tasks' = (tasks \ {t}) \cup {LoadTask(issued + 1)}
              /\ issued' = issued + 1
              /\ last' = Step("deleteThread", "ok", t.id, None, t.ownerToken)
           \/ \E outcome \in Outcomes \ {"ok"} :
                /\ error' = IF outcome = "status" THEN "Failed to delete thread."
                            ELSE ThrownMessage
                /\ tasks' = tasks \ {t}
                /\ last' = Step("deleteThread", outcome, t.id, None, t.ownerToken)
                /\ UNCHANGED <<threadTokens, loading, issued>>
        /\ UNCHANGED <<variant, theme, threads, replyTokens, authMode, authMessage,
                       authError, authLoading, authToken, authUser>>
        /\ Settled
        /\ Persist
        /\ UNCHANGED <<treeVars, reloadVars>>

\* handleDeleteReply(threadId, replyId) up to its fetch
handleDeleteReply ==
    \E threadId \in Ids, replyId \in Ids :
        /\ IF Lookup(replyTokens, replyId) = None
           THEN /\ last' = Step("deleteReply", "rejected", replyId, None, None)
                /\ UNCHANGED <<error, tasks, issued>>
           ELSE /\ error' = None
                /\ tasks' = tasks \cup {Task(issued + 1, "deleteReply", replyId,
                                             Lookup(replyTokens, replyId), None)}
                /\ issued' = issued + 1
                /\ last' = Step("deleteReply", "sent", replyId, None,
                                Lookup(replyTokens, replyId))
        /\ UNCHANGED <<variant, theme, threads, loading, threadTokens, replyTokens, authMode,
                       authMessage, authError, authLoading, authToken, authUser>>
        /\ UserEvent
        /\ Persist
        /\ UNCHANGED <<treeVars, reloadVars>>

\* handleDeleteReply after its fetch has settled
DeleteReplyResponse ==
    \E t \in tasks :
        /\ t.kind = "deleteReply"
        /\ \/ /\ replyTokens' = Remove(replyTokens, t.id)
              /\ loading' = TRUE
              /\ error' = None
              /\ tasks' = (tasks \ {t}) \cup {LoadTask(issued + 1)}
              /\ issued' = issued + 1
              /\ last' = Step("deleteReply", "ok", t.id, None, t.ownerToken)
           \/ \E outcome \in Outcomes \ {"ok"} :
                /\ error' = IF outcome = "status" THEN "Failed to delete reply."
                            ELSE ThrownMessage
                /\ tasks' = tasks \ {t}
                /\ last' = Step("deleteReply", outcome, t.id, None, t.ownerToken)
                /\ UNCHANGED <<replyTokens, loading, issued>>
        /\ UNCHANGED <<variant, theme, threads, threadTokens, authMode, authMessage,
                       authError, authLoading, authToken, authUser>>
        /\ Settled
        /\ Persist
        /\ UNCHANGED <<treeVars, reloadVars>>

(***************************************************************************)
(* App: the session.                                                       *)
(***************************************************************************)

\* the body of an auth response: unreadable (response.json() throws), or an
\* object with any of access_token, user and detail
\* the detail of a payload (detail?: unknown), by its shape: none, a string,
\* a list of field errors {msg}, or another object, kept with its JSON text
NoDetail == [shape |-> "missing"]

Details ==
    {NoDetail,
     [shape |-> "string", text |-> "Invalid credentials."],
     [shape |-> "list", msgs |-> <<"field required", "too short">>],
     [shape |-> "object", json |-> "{\"code\":7}"]}

Unreadable == [readable |-> FALSE, access_token |-> None, user |-> None, detail |-> NoDetail]

SessionBodies ==
    {Unreadable} \cup
    [readable : {TRUE}, access_token : {None, Bearer}, user : {None, User},
     detail : {NoDetail}]

ErrorBodies ==
    {Unreadable} \cup
    [readable : {TRUE}, access_token : {None}, user : {None},
     detail : Details]

\* the message of the SyntaxError response.json() throws on an unreadable body
ParseMessage == "Unexpected end of JSON input"

SuccessMessage(mode) == IF mode = "signin" THEN "Signed in successfully." ELSE "Account created."

\* detail.map((item) => item.msg).join(", ")
RECURSIVE JoinMsgs(_)
JoinMsgs(msgs) ==
    IF msgs = <<>> THEN ""
    ELSE IF Len(msgs) = 1 THEN msgs[1]
    ELSE msgs[1] \o ", " \o JoinMsgs(Tail(msgs))

\* String(detail) of an array of objects, as new Error(detail) makes it
RECURSIVE StringOfObjects(_)
StringOfObjects(msgs) ==
    IF msgs = <<>> THEN ""
    ELSE IF Len(msgs) = 1 THEN "[object Object]"
    ELSE "[object Object]," \o StringOfObjects(Tail(msgs))

\* the message handleAuthSubmit ends with on a non-success status
\*   single: new Error((await response.json()).detail || "Authentication failed.")
\*   routed: response.json().catch(() => null), then detail by shape
AuthFailureMessage(v, body) ==
    IF v = "single"
    THEN IF ~body.readable THEN ParseMessage
         ELSE CASE body.detail.shape = "missing" -> "Authentication failed."
                [] body.detail.shape = "string" -> body.detail.text
                [] body.detail.shape = "list" -> StringOfObjects(body.detail.msgs)
                [] body.detail.shape = "object" -> "[object Object]"
    ELSE IF ~body.readable THEN "Authentication failed."
         ELSE CASE body.detail.shape = "missing" -> "Authentication failed."
                [] body.detail.shape = "string" -> body.detail.text
                [] body.detail.shape = "list" -> JoinMsgs(body.detail.msgs)
                [] body.detail.shape = "object" -> body.detail.json

\* whether handleAuthSubmit, on a success status, reaches setAuthToken
\*   single: whenever the body is readable
\*   routed: when the payload has an access_token and a user
AuthAccepted(v, body) ==
    IF v = "single" THEN body.readable
    ELSE body.readable /\ body.access_token # None /\ body.user # None

\* the message it ends with on a success status that is not accepted
AuthRefusedMessage(v, body) ==
    IF v = "single" THEN ParseMessage ELSE "Authentication failed."

\* handleAuthSubmit up to its fetch.  anon: no request, a demo message only
handleAuthSubmit ==
    /\ IF variant = "anon"
       THEN /\ authMessage' = IF authMode = "signin" THEN "Sign-in submitted (demo only)."
                              ELSE "Sign-up submitted (demo only)."
            /\ last' = Step("auth", "rejected", Null, None, None)
            /\ UNCHANGED <<authError, authLoading, tasks, issued>>
       ELSE /\ authError' = None
            /\ authMessage' = None
            /\ authLoading' = TRUE
            /\ tasks' = tasks \cup {Task(issued + 1, "auth", Null, None, authMode)}
            /\ issued' = issued + 1
            /\ last' = Step("auth", "sent", Null, None, None)
    /\ UNCHANGED <<variant, theme, threads, loading, error, threadTokens, replyTokens,
                   authMode, authToken, authUser>>
    /\ UserEvent
    /\ Persist
    /\ UNCHANGED <<treeVars, reloadVars>>

\* handleAuthSubmit swallowing a failed request: nothing is reported
AuthResponseSilent ==
    \E t \in tasks :
        /\ t.kind = "auth"
        /\ \E result \in {"status", "throw"} : last' = Step("auth", result, Null, None, None)
        /\ tasks' = tasks \ {t}
        /\ authLoading' = FALSE
        /\ UNCHANGED <<variant, theme, threads, loading, error, threadTokens, replyTokens,
                       authMode, authMessage, authError, authToken, authUser, issued>>
        /\ Settled
        /\ Persist
        /\ UNCHANGED <<treeVars, reloadVars>>

\* handleAuthSubmit after its fetch has settled.  routed: the effect on
\* [isAuthed] calls loadThreads() when the session has just become active
AuthResponse ==
    \E t \in tasks :
        /\ t.kind = "auth"
        /\ \/ \E body \in SessionBodies :
                /\ AuthAccepted(variant, body)
                /\ authToken' = body.access_token
                /\ authUser' = body.user
                /\ authMessage' = SuccessMessage(t.mode)
                /\ last' = Step("auth", "ok", Null, None, None)
                /\ IF variant = "routed" /\ ~isAuthed /\ IsAuthed(authToken', authUser')
                   THEN /\ loading' = TRUE
                        /\ error' = None
                        /\ tasks' = (tasks \ {t}) \cup {LoadTask(issued + 1)}
                        /\ issued' = issued + 1
                   ELSE /\ tasks' = tasks \ {t}
                        /\ UNCHANGED <<loading, error, issued>>
                /\ UNCHANGED authError
           \/ \E body \in SessionBodies :
                /\ ~AuthAccepted(variant, body)
                /\ authError' = AuthRefusedMessage(variant, body)
                /\ last' = Step("auth", "refused", Null, None, None)
                /\ tasks' = tasks \ {t}
                /\ UNCHANGED <<authToken, authUser, authMessage, loading, error, issued>>
           \/ \E body \in ErrorBodies :
                /\ authError' = AuthFailureMessage(variant, body)
                /\ last' = AuthStep("status", body)
                /\ tasks' = tasks \ {t}
                /\ UNCHANGED <<authToken, authUser, authMessage, loading, error, issued>>
           \/ /\ authError' = ThrownMessage
              /\ last' = Step("auth", "throw", Null, None, None)
              /\ tasks' = tasks \ {t}
              /\ UNCHANGED <<authToken, authUser, authMessage, loading, error, issued>>
        /\ authLoading' = FALSE
        /\ UNCHANGED <<variant, theme, threads, threadTokens, replyTokens, authMode>>
        /\ Settled
        /\ Persist
        /\ UNCHANGED <<treeVars, reloadVars>>

\* a click on sign-out; a click that repeats the click before it is counted
\* with it
SignOutEvent == IF last.op = "signOut" THEN UNCHANGED events ELSE UserEvent

SignOutStep == Step("signOut", IF last.op = "signOut" THEN "again" ELSE "ok", Null, None, None)

\* handleSignOut that reports an error when there is no session to end
handleSignOutComplaining ==
    /\ variant \in HasSession
    /\ authToken' = None
    /\ authUser' = None
    /\ authMessage' = None
    /\ authError' = IF isAuthed THEN authError ELSE "Not signed in."
    /\ threads' = IF variant = "routed" /\ isAuthed THEN 0 ELSE threads
    /\ last' = SignOutStep
    /\ UNCHANGED <<variant, theme, loading, error, threadTokens, replyTokens, authMode,
                   authLoading, tasks, issued>>
    /\ SignOutEvent
    /\ Persist
    /\ UNCHANGED <<treeVars, reloadVars>>

\* handleSignOut that also clears the owner tokens
handleSignOutClearing ==
    /\ variant \in HasSession
    /\ authToken' = None
    /\ authUser' = None
    /\ authMessage' = None
    /\ threadTokens' = EmptyMap
    /\ replyTokens' = EmptyMap
    /\ threads' = IF variant = "routed" /\ isAuthed THEN 0 ELSE threads
    /\ last' = SignOutStep
    /\ UNCHANGED <<variant, theme, loading, error, authMode, authError, authLoading, tasks,
                   issued>>
    /\ SignOutEvent
    /\ Persist
    /\ UNCHANGED <<treeVars, reloadVars>>

\* handleSignOut (single, routed).  routed: the effect on [isAuthed] calls
\* setThreads([]) when the session has just ended
handleSignOut ==
    /\ variant \in HasSession
    /\ authToken' = None
    /\ authUser' = None
    /\ authMessage' = None
    /\ threads' = IF variant = "routed" /\ isAuthed THEN 0 ELSE threads
    /\ last' = SignOutStep
    /\ UNCHANGED <<variant, theme, loading, error, threadTokens, replyTokens, authMode,
                   authError, authLoading, tasks, issued>>
    /\ SignOutEvent
    /\ Persist
    /\ UNCHANGED <<treeVars, reloadVars>>

(***************************************************************************)
(* App: theme and form edits.                                              *)
(***************************************************************************)

\* the theme toggle: setTheme(prev === "light" ? "dark" : "light")
ToggleTheme ==
    /\ theme' = IF theme = "light" THEN "dark" ELSE "light"
    /\ last' = Step("theme", "ok", Null, None, None)
    /\ UNCHANGED <<variant, threads, loading, error, threadTokens, replyTokens, authMode,
                   authMessage, authError, authLoading, authToken, authUser, tasks, issued>>
    /\ UserEvent
    /\ Persist
    /\ UNCHANGED <<treeVars, reloadVars>>

\* a form edit: the auth tabs, setAuthMode("signin") / setAuthMode("signup")
SetAuthMode ==
    \E mode \in {"signin", "signup"} :
        /\ authMode' = mode
        /\ last' = Step("form", "ok", Null, None, None)
        /\ UNCHANGED <<variant, theme, threads, loading, error, threadTokens, replyTokens,
                       authMessage, authError, authLoading, authToken, authUser, tasks,
                       issued>>
        /\ UserEvent
        /\ Persist
        /\ UNCHANGED <<treeVars, reloadVars>>

Next ==
    \/ LoadResponse
    \/ handleCreateThread
    \/ CreateThreadResponse
    \/ handleCreateReply
    \/ CreateReplyResponse
    \/ handleDeleteThread
    \/ DeleteThreadResponse
    \/ handleDeleteReply
    \/ DeleteReplyResponse
    \/ handleAuthSubmit
    \/ AuthResponse
    \/ handleSignOut
    \/ ToggleTheme
    \/ SetAuthMode

Spec == Init /\ [][Next]_vars

(***************************************************************************)
(* ThreadItem: the tree builder applied to bounded reply lists.            *)
(***************************************************************************)

\* an App that is not looked at: the signed-out routed variant at rest
AppAtRest ==
    /\ variant = "routed"
    /\ theme = "light"
    /\ threads = 0
    /\ loading = FALSE
    /\ error = None
    /\ threadTokens = EmptyMap
    /\ replyTokens = EmptyMap
    /\ authMode = "signin"
    /\ authMessage = None
    /\ authError = None
    /\ authLoading = FALSE
    /\ authToken = None
    /\ authUser = None
    /\ storage = Stored(variant, theme, threadTokens, replyTokens, authToken, authUser)
    /\ tasks = {}
    /\ issued = 0
    /\ events = 0
    /\ last = Step("mount", "ok", Null, None, None)

TreeInit ==
    /\ AppAtRest
    /\ ReloadAtRest
    /\ replies \in TreeInputs
    /\ rendered = <<>>
    /\ treeStatus = "input"

\* ThreadItem's render: <div className="reply-list">{renderReplies(null, 0)}</div>
RenderThread ==
    /\ treeStatus = "input"
    /\ LET out == renderReplies(replies, Null, 0)
       IN IF \E k \in 1..Len(out) : out[k] = StackOverflow
          THEN /\ treeStatus' = "overflow"
               /\ rendered' = <<>>
          ELSE /\ treeStatus' = "rendered"
               /\ rendered' = out
    /\ UNCHANGED replies
    /\ UNCHANGED appVars
    /\ UNCHANGED reloadVars

TreeNext == RenderThread

SpecTree == TreeInit /\ [][TreeNext]_vars

(***************************************************************************)
(* Page loads over one localStorage.                                       *)
(***************************************************************************)

TreeAtRest ==
    /\ replies = <<>>
    /\ rendered = <<>>
    /\ treeStatus = "idle"

ReloadInit ==
    /\ AppAtRest
    /\ TreeAtRest
    /\ disk \in DiskInputs
    /\ found = disk
    /\ page = NoPage
    /\ phase = "new"

\* A page load: the useState initialisers read localStorage, then the
\* persistence effects of the mount write the state back.  An exception
\* leaving an initialiser leaves the page unrendered.
OpenPage ==
    /\ phase \in {"new", "closed"}
    /\ found' = disk
    /\ LET pg == Rehydrate(disk)
       IN IF pg.threadTokens = Thrown \/ pg.replyTokens = Thrown
          THEN /\ phase' = "crashed"
               /\ UNCHANGED <<disk, page>>
          ELSE /\ phase' = "open"
               /\ page' = pg
               /\ disk' = Flush(pg)
    /\ UNCHANGED <<appVars, treeVars>>

\* a create has succeeded: setThreadTokens / setReplyTokens
\* ((prev) => ({ ...prev, [created.id]: token })), then the effect on the map
RecordToken ==
    /\ phase = "open"
    /\ \E id \in Ids, token \in {"gen1"} :
          \/ page' = [page EXCEPT !.threadTokens = Put(@, id, token)]
          \/ page' = [page EXCEPT !.replyTokens = Put(@, id, token)]
    /\ disk' = Flush(page')
    /\ UNCHANGED <<found, phase, appVars, treeVars>>

\* a delete has succeeded: delete next[id], then the effect on the map
DropToken ==
    /\ phase = "open"
    /\ \E id \in Ids :
          \/ /\ Lookup(page.threadTokens, id) # None
             /\ page' = [page EXCEPT !.threadTokens = Remove(@, id)]
          \/ /\ Lookup(page.replyTokens, id) # None
             /\ page' = [page EXCEPT !.replyTokens = Remove(@, id)]
    /\ disk' = Flush(page')
    /\ UNCHANGED <<found, phase, appVars, treeVars>>

\* the tab is closed or reloaded: the state is gone, localStorage stays; page
\* keeps what the state was
ClosePage ==
    /\ phase = "open"
    /\ phase' = "closed"
    /\ UNCHANGED <<disk, found, page, appVars, treeVars>>

ReloadNext == OpenPage \/ RecordToken \/ DropToken \/ ClosePage

SpecReload == ReloadInit /\ [][ReloadNext]_vars

(***************************************************************************)
(* App: two requests in flight together.                                   *)
(***************************************************************************)

\* The mounted client (its first load answered) after two handler calls made
\* one after the other, before either request has answered: a create, and
\* then a second create of the same kind or a delete of an owned id.
OverlapInit ==
    /\ variant \in Variants
    /\ theme = "light"
    /\ threads = 1
    /\ loading = FALSE
    /\ error = None
    /\ authMode = "signin"
    /\ authMessage = None
    /\ authError = None
    /\ authLoading = FALSE
    /\ authToken = (IF variant \in HasSession THEN Bearer ELSE None)
    /\ authUser = (IF variant \in HasSession THEN User ELSE None)
    /\ issued = 3
    /\ events = 2
    /\ \E kind \in {"Thread", "Reply"} :
          LET first == Task(2, "create" \o kind, Null, "gen1", None)
              owned(d) == Put(EmptyMap, d, "old")
          IN \/ /\ tasks = {first, Task(3, "create" \o kind, Null, "gen2", None)}
                /\ last = Step("create" \o kind, "sent", Null, None, "gen2")
                /\ threadTokens = EmptyMap
                /\ replyTokens = EmptyMap
             \/ \E d \in Ids :
                   /\ tasks = {first, Task(3, "delete" \o kind, d, "old", None)}
                   /\ last = Step("delete" \o kind, "sent", d, None, "old")
                   /\ threadTokens = (IF kind = "Thread" THEN owned(d) ELSE EmptyMap)
                   /\ replyTokens = (IF kind = "Reply" THEN owned(d) ELSE EmptyMap)
    /\ storage = Stored(variant, theme, threadTokens, replyTokens, authToken, authUser)
    /\ TreeAtRest
    /\ ReloadAtRest

OverlapNext ==
    \/ LoadResponse
    \/ CreateThreadResponse
    \/ CreateReplyResponse
    \/ DeleteThreadResponse
    \/ DeleteReplyResponse

SpecOverlap == OverlapInit /\ [][OverlapNext]_vars

(***************************************************************************)
(* Properties of the tree builder (checked under SpecTree).                *)
(***************************************************************************)

\* how often the reply at position i of the list is emitted
Emitted(i) == Cardinality({k \in 1..Len(rendered) : rendered[k].idx = i})

\* the ids of the thread's replies
ReplyIdsOf(rs) == {rs[i].id : i \in 1..Len(rs)}

\* position i holds a reply whose parent_id names no reply of the list
IsOrphan(rs, i) == rs[i].parent_id # Null /\ rs[i].parent_id \notin ReplyIdsOf(rs)

\* C1: for every reply list, a completed renderReplies(null, 0) emits every
\* reply of the list exactly once -- none missing, none repeated.
C1_EveryReplyEmittedOnce ==
    treeStatus = "rendered" => \A i \in 1..Len(replies) : Emitted(i) = 1

\* C2: a reply whose parent_id is non-null and is the id of no reply of the
\* list is emitted at depth 0, as if its parent_id were null.
C2_OrphanEmittedAtDepthZero ==
    treeStatus = "rendered" =>
        \A i \in 1..Len(replies) :
            IsOrphan(replies, i) =>
                \E k \in 1..Len(rendered) : rendered[k] = [idx |-> i, depth |-> 0]

(***************************************************************************)
(* Properties of the App component (checked under Spec).                   *)
(***************************************************************************)

Creates == {"createThread", "createReply"}
Deletes == {"deleteThread", "deleteReply"}
Failures == {"status", "throw"}

\* the token map and the capability of the entity kind a handler deals with
TokensOf(op) == IF op \in {"createThread", "deleteThread"} THEN threadTokens ELSE replyTokens
CanDelete(op, id) ==
    IF op \in {"createThread", "deleteThread"} THEN canDeleteThread(id) ELSE canDeleteReply(id)

\* C3: a load response that arrives when the threads state already holds the
\* data of a later-issued load request is not applied: threads keeps the data
\* of the later request.
C3_StaleLoadResponseNotApplied ==
    [][\A t \in tasks :
          (t.kind = "load" /\ t \notin tasks' /\ t.seq < threads) => threads' = threads]_vars

\* C4: in every state without an active session no delete capability is
\* offered, for any thread id or reply id, whatever the token maps hold.
C4_NoSessionNoDeleteCapability ==
    ~isAuthed => \A id \in Ids : ~canDeleteThread(id) /\ ~canDeleteReply(id)

\* C5: the delete capability of a kind needs a token in the map of that kind:
\* without a thread token for n deleting thread n is neither offered nor sent,
\* and likewise for replies, whatever the map of the other kind holds for n.
C5_CapabilityNeedsTokenOfSameKind ==
    /\ \A id \in Ids :
          /\ Lookup(threadTokens, id) = None => ~canDeleteThread(id)
          /\ Lookup(replyTokens, id) = None => ~canDeleteReply(id)
    /\ (last.op \in Deletes /\ last.result = "sent") =>
          Lookup(TokensOf(last.op), last.id) # None
    /\ (last.op \in Deletes /\ last.result = "rejected") =>
          Lookup(TokensOf(last.op), last.id) = None

\* C5 witness: reply n has no token while thread n has one, a session is
\* active, and a delete of reply n has just been turned down
C5_Witness ==
    /\ last.op = "deleteReply" /\ last.result = "rejected"
    /\ Lookup(threadTokens, last.id) # None
    /\ canDeleteThread(last.id)
    /\ ~canDeleteReply(last.id)
    /\ isAuthed

\* C6: without an active session a call of handleCreateThread,
\* handleCreateReply, handleDeleteThread or handleDeleteReply sends no request.
C6_NoSessionNoRequest ==
    (last.op \in Creates \cup Deletes /\ last.result = "sent") => isAuthed

\* C7: a delete response that reports a failure leaves both token maps and the
\* delete capability of that id as they were, and an entry leaves a token map
\* only in the step of a successful delete response for that id.
C7_FailedDeleteKeepsToken ==
    [][/\ \A op \in Deletes, id \in Ids :
            (last'.op = op /\ last'.id = id /\ last'.result \in Failures) =>
                /\ threadTokens' = threadTokens
                /\ replyTokens' = replyTokens
                /\ CanDelete(op, id)' = CanDelete(op, id)
       /\ \A id \in DOMAIN threadTokens \ DOMAIN threadTokens' :
            last'.op = "deleteThread" /\ last'.result = "ok" /\ last'.id = id
       /\ \A id \in DOMAIN replyTokens \ DOMAIN replyTokens' :
            last'.op = "deleteReply" /\ last'.result = "ok" /\ last'.id = id]_vars

\* C7 witness: a delete has just failed and the delete is still offered
C7_Witness ==
    /\ last.op \in Deletes /\ last.result \in Failures
    /\ Lookup(TokensOf(last.op), last.id) = last.ownerToken
    /\ CanDelete(last.op, last.id)
    /\ error \in {"Failed to delete thread.", "Failed to delete reply.", ThrownMessage}

\* C8: no step of a create handler whose request fails registers a token: the
\* call, a local rejection and the failure response each leave both maps as
\* they are.
C8_FailedCreateRegistersNoToken ==
    [][(last'.op \in Creates /\ last'.result # "ok") =>
            (threadTokens' = threadTokens /\ replyTokens' = replyTokens)]_vars

\* C8 witness: a create request has just failed
C8_Witness ==
    /\ last.op \in Creates /\ last.result \in Failures
    /\ error \in {"Failed to create thread.", "Failed to create reply.", ThrownMessage}

\* C9: right after a create succeeds with response id i the map of that kind
\* holds, under i, the response's owner_token, or the token generated for the
\* request when the response has none; with an active session the delete of i
\* is offered.
C9_CreatedEntityIsOwned ==
    (last.op \in Creates /\ last.result = "ok") =>
        /\ Lookup(TokensOf(last.op), last.id) =
              (IF last.respToken # None THEN last.respToken ELSE last.ownerToken)
        /\ Lookup(TokensOf(last.op), last.id) # None
        /\ isAuthed => CanDelete(last.op, last.id)

\* C9 witness: a create has succeeded with a response that has no owner_token,
\* a session is active and the delete of the created id is offered
C9_Witness ==
    /\ last.op \in Creates /\ last.result = "ok"
    /\ last.respToken = None
    /\ Lookup(TokensOf(last.op), last.id) \in GeneratedTokens
    /\ isAuthed
    /\ CanDelete(last.op, last.id)

\* C10: a token map changes only in the step of a successful create of that
\* kind (the entry of the created id is set, nothing else) or of a successful
\* delete of that kind (the entry of the deleted id goes, nothing else); every
\* other step -- sign-in, sign-up, sign-out, loads, failures, theme, form
\* edits -- leaves both maps as they are.
C10_TokenMapsChangeOnlyByCreateAndDelete ==
    [][/\ threadTokens' # threadTokens =>
            /\ last'.op \in {"createThread", "deleteThread"} /\ last'.result = "ok"
            /\ replyTokens' = replyTokens
            /\ last'.op = "createThread" =>
                  /\ last'.id \in DOMAIN threadTokens'
                  /\ Remove(threadTokens', last'.id) = Remove(threadTokens, last'.id)
            /\ last'.op = "deleteThread" => threadTokens' = Remove(threadTokens, last'.id)
       /\ replyTokens' # replyTokens =>
            /\ last'.op \in {"createReply", "deleteReply"} /\ last'.result = "ok"
            /\ threadTokens' = threadTokens
            /\ last'.op = "createReply" =>
                  /\ last'.id \in DOMAIN replyTokens'
                  /\ Remove(replyTokens', last'.id) = Remove(replyTokens, last'.id)
            /\ last'.op = "deleteReply" => replyTokens' = Remove(replyTokens, last'.id)]_vars

\* C10 witness: the session has just been ended and the owner tokens are still there
C10_Witness ==
    /\ last.op = "signOut"
    /\ ~isAuthed
    /\ threadTokens # EmptyMap
    /\ replyTokens # EmptyMap
    /\ storage.threadTokens = Stringify(threadTokens)

\* C11: in every state the session is all there or not there at all:
\* authToken is set exactly when authUser is set.
C11_SessionAllOrNothing ==
    (authToken = None) <=> (authUser = None)

EnclosedBy(k, j) ==
    /\ j < k
    /\ rendered[j].depth = rendered[k].depth - 1
    /\ \A m \in (j + 1)..(k - 1) : rendered[m].depth >= rendered[k].depth

\* rendered[k1] and rendered[k2] come out of the same call of renderReplies:
\* same depth, nothing of a lower depth in between
SameCall(k1, k2) ==
    /\ k1 < k2
    /\ rendered[k1].depth = rendered[k2].depth
    /\ \A m \in k1..k2 : rendered[m].depth >= rendered[k1].depth

\* the ids of the list are pairwise distinct
DistinctIds(rs) == \A i, j \in 1..Len(rs) : rs[i].id = rs[j].id => i = j

\* C13: in the output of renderReplies(null, 0) every reply with parent_id
\* null is emitted, at depth 0 only, and every emitted reply with a parent
\* reference is nested under an emitted reply with that id, one level deeper
\* than it.
C13_DepthIsParentDepthPlusOne ==
    treeStatus = "rendered" =>
        /\ \A i \in 1..Len(replies) :
              replies[i].parent_id = Null =>
                  /\ \E k \in 1..Len(rendered) : rendered[k].idx = i
                  /\ \A k \in 1..Len(rendered) : rendered[k].idx = i => rendered[k].depth = 0
        /\ \A k \in 1..Len(rendered) :
              replies[rendered[k].idx].parent_id # Null =>
                  \E j \in 1..Len(rendered) :
                      /\ EnclosedBy(k, j)
                      /\ replies[rendered[j].idx].id = replies[rendered[k].idx].parent_id

\* C13 witness: a chain of three replies is emitted at depths 0, 1 and 2
C13_Witness ==
    /\ treeStatus = "rendered"
    /\ \E k \in 1..Len(rendered) : rendered[k].depth = 2
    /\ \E k \in 1..Len(rendered) :
          rendered[k].depth = 1 /\ replies[rendered[k].idx].parent_id # Null

\* C14: two replies emitted by the same call of renderReplies (children of one
\* parent) come in non-decreasing created_at order, and in input order when
\* their created_at is equal.
C14_SiblingsInTimeOrder ==
    treeStatus = "rendered" =>
        \A k1, k2 \in 1..Len(rendered) :
            SameCall(k1, k2) =>
                LET a == rendered[k1].idx
                    b == rendered[k2].idx
                IN /\ replies[a].created_at <= replies[b].created_at
                   /\ replies[a].created_at = replies[b].created_at => a < b

\* C14 witness: the scenario R1 (root, 10:00), R2 (child of R1, 10:05),
\* R3 (root, 10:02) gives the roots R1, R3 with R2 nested under R1
C14_Witness ==
    /\ treeStatus = "rendered"
    /\ replies = <<[id |-> 1, parent_id |-> Null, created_at |-> 1],
                   [id |-> 2, parent_id |-> 1, created_at |-> 3],
                   [id |-> 3, parent_id |-> Null, created_at |-> 2]>>
    /\ rendered = <<[idx |-> 1, depth |-> 0], [idx |-> 2, depth |-> 1], [idx |-> 3, depth |-> 0]>>

\* C14 witness of the tie: three roots listed with times 2, 1, 1 come out as
\* the second, the third, the first
C14_WitnessTie ==
    /\ treeStatus = "rendered"
    /\ Len(replies) = 3
    /\ \A i \in 1..3 : replies[i].parent_id = Null
    /\ <<replies[1].created_at, replies[2].created_at, replies[3].created_at>> = <<2, 1, 1>>
    /\ <<rendered[1].idx, rendered[2].idx, rendered[3].idx>> = <<2, 3, 1>>

\* C15: for a reply list with pairwise distinct ids renderReplies(null, 0)
\* returns, whatever the parent references are -- a reply that is its own
\* parent and replies that are each other's parent included.
C15_DistinctIdsTerminate ==
    (treeStatus # "input" /\ DistinctIds(replies)) => treeStatus = "rendered"

\* C15 witness: the render has returned for a list with distinct ids that
\* holds a reply that is its own parent and two replies that are each other's
C15_Witness ==
    /\ treeStatus = "rendered"
    /\ DistinctIds(replies)
    /\ \E i \in 1..Len(replies) : replies[i].parent_id = replies[i].id
    /\ \E i, j \in 1..Len(replies) :
          /\ i # j
          /\ replies[i].parent_id = replies[j].id
          /\ replies[j].parent_id = replies[i].id

(***************************************************************************)
(* App: rejected deletes (checked under Spec).                             *)
(***************************************************************************)

\* C16: a call of handleDeleteThread or handleDeleteReply for an id without an
\* owner token in the map of its kind sends no request and ends with a message
\* in error.
C16_DeleteWithoutTokenReportsError ==
    [][(last'.op \in Deletes /\ last'.result = "rejected") =>
            /\ tasks' = tasks
            /\ issued' = issued
            /\ error' # None]_vars

(***************************************************************************)
(* Persistence (C18 under Spec; C17, C19, C20 under SpecReload).           *)
(***************************************************************************)

\* a stored token-map text readTokenMap cannot use: nothing, "", or no JSON
Unusable == {"missing", "empty", "malformed"}

\* C17: a page load after a close reads back the token maps the closed page
\* held: every id has the token it had, and no other id has one.
C17_ReloadKeepsTokenMaps ==
    [][(phase = "closed" /\ phase' # "closed") =>
            /\ phase' = "open"
            /\ page'.threadTokens = page.threadTokens
            /\ page'.replyTokens = page.replyTokens
            /\ \A id \in Ids :
                  /\ Lookup(page'.threadTokens, id) = Lookup(page.threadTokens, id)
                  /\ Lookup(page'.replyTokens, id) = Lookup(page.replyTokens, id)]_vars

\* C17 witness: the page has been loaded from what an earlier page wrote and
\* holds the tokens recorded for thread 2 and reply 1 before the reload
C17_Witness ==
    /\ phase = "open"
    /\ found = Flush(page)
    /\ Lookup(page.threadTokens, 2) = "gen1"
    /\ Lookup(page.replyTokens, 1) = "gen1"
    /\ readTokenMap(found.threadTokens) = page.threadTokens

C19_UnusableStorageGivesEmptyMap ==
    [][(phase \in {"new", "closed"} /\ phase' # phase) =>
            /\ phase' = "open"
            /\ disk.threadTokens.kind \in Unusable => page'.threadTokens = EmptyMap
            /\ disk.replyTokens.kind \in Unusable => page'.replyTokens = EmptyMap]_vars

\* C19 witness: the page is open, loaded from unparseable text under the
\* thread key and the empty string under the reply key, with both maps empty
C19_Witness ==
    /\ phase = "open"
    /\ found.threadTokens = Malformed
    /\ found.replyTokens.kind = "empty"
    /\ page.threadTokens = EmptyMap
    /\ page.replyTokens = EmptyMap
    /\ disk.threadTokens = Stringify(EmptyMap)

\* C20: a page load that finds JSON of the wrong shape starts from the
\* default: the empty map for a token-map text that is no object, an absent
\* user for a profile text that is no {id, username, email} object.
C20_WrongShapeGivesDefault ==
    [][(phase \in {"new", "closed"} /\ phase' = "open") =>
            /\ disk.threadTokens.kind \in {"null", "number", "array"} =>
                  page'.threadTokens = EmptyMap
            /\ disk.replyTokens.kind \in {"null", "number", "array"} =>
                  page'.replyTokens = EmptyMap
            /\ disk.authUser # [kind |-> "json", value |-> User] => page'.authUser = None]_vars

(***************************************************************************)
(* App: sign-out, failures, reloads (checked under Spec).                  *)
(***************************************************************************)

\* what the component holds, the log of steps and events left aside
held == <<variant, theme, threads, loading, error, threadTokens, replyTokens, authMode,
          authMessage, authError, authLoading, authToken, authUser, storage, tasks, issued>>

\* C21: a call of handleSignOut ends signed out and sets no error, with or
\* without a session before it; a call that follows a call of handleSignOut
\* directly changes nothing.
C21_SignOutIdempotent ==
    [][(last'.op = "signOut") =>
            /\ authToken' = None /\ authUser' = None /\ authMessage' = None
            /\ error' = error /\ authError' = authError
            /\ (authToken = None /\ authUser = None /\ authMessage = None) => held' = held
            /\ last.op = "signOut" => held' = held]_vars

\* C21 witness: handleSignOut has been called twice in a row; the client is
\* signed out and shows no error
C21_Witness ==
    /\ last.op = "signOut" /\ last.result = "again"
    /\ authToken = None /\ authUser = None
    /\ authError = None /\ error = None

\* the message a handler throws on a non-success status
StatusMessage(op) ==
    CASE op = "loadThreads" -> "Could not load threads."
      [] op = "createThread" -> "Failed to create thread."
      [] op = "createReply" -> "Failed to create reply."
      [] op = "deleteThread" -> "Failed to delete thread."
      [] op = "deleteReply" -> "Failed to delete reply."

\* C22: the step in which a load, create or delete request fails ends with
\* error holding the one message of that failure -- the handler's own message
\* for a non-success status, the thrown error's message for a transport
\* error -- and a failed create or delete sends no request: no reload follows.
C22_FailureSetsOneMessageAndAborts ==
    [][(last'.op \in {"loadThreads"} \cup Creates \cup Deletes /\ last'.result \in Failures) =>
            /\ error' = (IF last'.result = "status" THEN StatusMessage(last'.op)
                         ELSE ThrownMessage)
            /\ error' # None
            /\ last'.op \in Creates \cup Deletes =>
                  /\ issued' = issued
                  /\ tasks' \subseteq tasks]_vars

\* C22 witness: a delete has just failed with a non-success status; its
\* message is shown and no request has been sent after the delete request
C22_Witness ==
    /\ last.op = "deleteThread" /\ last.result = "status"
    /\ error = "Failed to delete thread."
    /\ \A t \in tasks : t.kind = "load" /\ t.seq = 1
    /\ issued <= 2

\* C23: the step in which a create or delete succeeds sends exactly one new
\* load-all-threads request, and the state in which that request is in flight
\* already has the token-map update of the operation: the entry of a created
\* id is there, the entry of a deleted id is gone.
C23_SuccessUpdatesTokensThenReloads ==
    [][(last'.op \in Reloading /\ last'.result = "ok") =>
            /\ issued' = issued + 1
            /\ tasks' \ tasks = {LoadTask(issued')}
            /\ loading' = TRUE
            /\ last'.op = "createThread" => Lookup(threadTokens', last'.id) # None
            /\ last'.op = "createReply" => Lookup(replyTokens', last'.id) # None
            /\ last'.op = "deleteThread" => Lookup(threadTokens', last'.id) = None
            /\ last'.op = "deleteReply" => Lookup(replyTokens', last'.id) = None]_vars

\* C23 witness: a thread has just been deleted; its token is gone and the
\* reload sent for it is in flight
C23_Witness ==
    /\ last.op = "deleteThread" /\ last.result = "ok"
    /\ last.ownerToken # None
    /\ Lookup(threadTokens, last.id) = None
    /\ LoadTask(issued) \in tasks
    /\ loading

\* the message the payload of a failed sign-in/sign-up stands for
DetailText(body) ==
    IF ~body.readable THEN "Authentication failed."
    ELSE CASE body.detail.shape = "missing" -> "Authentication failed."
           [] body.detail.shape = "string" -> body.detail.text
           [] body.detail.shape = "list" -> JoinMsgs(body.detail.msgs)
           [] body.detail.shape = "object" -> body.detail.json

\* C24: after a sign-in/sign-up response with a non-success status authError
\* is the detail of the payload by shape: the string itself, the msg texts of a
\* list of field errors joined by ", ", the JSON text of another object, and
\* "Authentication failed." for a missing detail or an unparseable payload.
C24_AuthErrorIsDetailByShape ==
    [][(last'.op = "auth" /\ last'.result = "status") =>
            authError' = DetailText(last'.body)]_vars

(***************************************************************************)
(* App: overlapping requests (C25, C26 under Spec).                        *)
(***************************************************************************)

\* a load-all-threads request is awaiting its response
LoadInFlight == \E t \in tasks : t.kind = "load"

\* C25: in every state loading is true exactly when a load-all-threads
\* request is awaiting its response.
C25_LoadingTracksLoads ==
    loading <=> LoadInFlight

\* C26: in the routed variant a threads state that is empty while no session is
\* active stays empty in every step that leaves the client without a session.
C26_RoutedThreadsStayEmpty ==
    [][(variant = "routed" /\ ~isAuthed /\ threads = 0 /\ ~isAuthed') => threads' = 0]_vars

(***************************************************************************)
(* App: overlapping token-map updates (C27 under SpecOverlap).             *)
(***************************************************************************)

\* C27: with two create/delete requests in flight together, the step in which
\* one of them succeeds changes the entry of its own id in the map of its own
\* kind and nothing else -- the created id is there, the deleted id is gone,
\* every other entry of both maps is what it was -- so in either order of
\* completion no update of the other operation is lost.
C27_OverlappingUpdatesKept ==
    [][(last'.op \in Creates \cup Deletes /\ last'.result = "ok") =>
            /\ \A id \in Ids \ {last'.id} :
                  /\ Lookup(threadTokens', id) = Lookup(threadTokens, id)
                  /\ Lookup(replyTokens', id) = Lookup(replyTokens, id)
            /\ last'.op \in {"createThread", "deleteThread"} => replyTokens' = replyTokens
            /\ last'.op \in {"createReply", "deleteReply"} => threadTokens' = threadTokens
            /\ last'.op = "createThread" => Lookup(threadTokens', last'.id) # None
            /\ last'.op = "createReply" => Lookup(replyTokens', last'.id) # None
            /\ last'.op = "deleteThread" => Lookup(threadTokens', last'.id) = None
            /\ last'.op = "deleteReply" => Lookup(replyTokens', last'.id) = None]_vars

\* C27 witness: two thread creates were in flight together, the one sent
\* second answered first, both succeeded, and the map has both entries
C27_Witness ==
    /\ last.op = "createThread" /\ last.result = "ok" /\ last.ownerToken = "gen1"
    /\ \A t \in tasks : t.kind = "load"
    /\ issued = 5
    /\ \E i, j \in Ids :
          /\ i # j
          /\ Lookup(threadTokens, i) = "gen1"
          /\ Lookup(threadTokens, j) = "gen2"

\* C27 witness, create and delete: the delete of thread 1 and the create of
\* thread 2 were in flight together and both succeeded
C27_WitnessDelete ==
    /\ last.op = "deleteThread" /\ last.result = "ok" /\ last.id = 1
    /\ \A t \in tasks : t.kind = "load"
    /\ issued = 5
    /\ Lookup(threadTokens, 1) = None
    /\ Lookup(threadTokens, 2) \in {"gen1", "srv"}

(***************************************************************************)
(* Tree builder with repeated ids (C28 under SpecTree); the auth form's    *)
(* message (C29 under Spec).                                               *)
(***************************************************************************)

\* C28: renderReplies(null, 0) returns for every reply list, lists with
\* repeated ids included: the render never ends in unbounded recursion.
C28_RenderAlwaysTerminates ==
    treeStatus # "overflow"

\* C29: in the variants with a session, a message in authMessage implies an
\* active session: authToken and authUser are both set.
C29_AuthMessageImpliesSession ==
    (variant \in HasSession /\ authMessage # None) => (authToken # None /\ authUser # None)

====
